---- MODULE Spec2Model ----
(***************************************************************************)
(* Model of woolly/bp/autocast/backpropagation.py: the training function   *)
(* returned by train() and the evaluation routine test().  The model,      *)
(* optimizer, gradient scaler, scheduler, criteria and data loader are the *)
(* arguments of the two routines; they are modelled by the effect of each  *)
(* call the routines make on them, and every call is appended to `calls`.  *)
(***************************************************************************)
EXTENDS Integers, Sequences, FiniteSets

\* ---------------------------------------------------------------- bounds
MaxBatches == 2        \* batches a loader yields: 0 .. MaxBatches
MaxBatch == 2          \* samples in one batch: 1 .. MaxBatch

\* ------------------------------------------------------- program constants
LambdaNum == 5         \* default lambda_l1 = 5e-4 = LambdaNum / LambdaDen
LambdaDen == 10000
Percent == 100         \* the factor 100.0 of the returned accuracy

Weights == {0, 1}      \* values of the model's single parameter

\* ------------------------------------------------ exact rational numbers
\* Python floats are modelled as exact rationals [n, d] in lowest terms.
RECURSIVE GCD(_, _)
GCD(a, b) == IF b = 0 THEN a ELSE GCD(b, a % b)

Rat(n, d) == LET g == GCD(n, d) IN [n |-> n \div g, d |-> d \div g]

RAdd(p, q) == Rat(p.n * q.d + q.n * p.d, p.d * q.d)

RZero == Rat(0, 1)

\* -------------------------------------------------------- data and model
\* A sample is <<x, t>>: input feature x and target class t.  The two samples
\* have different inputs and the same target, so that every value of the
\* parameter gets one of them right and the other wrong.
Samples == {<<0, 0>>, <<1, 0>>}

BatchesOfSize(k) == [1..k -> Samples]

Batches == UNION {BatchesOfSize(k) : k \in 1..MaxBatch}

Data(b) == [i \in 1..Len(b) |-> b[i][1]]

Target(b) == [i \in 1..Len(b) |-> b[i][2]]

\* model(data, dropout): per sample, the class with the largest score.  The
\* parameter shifts the class; dropout perturbs it in training mode only.
Forward(weight, data, dropout, mode) ==
    [i \in 1..Len(data) |->
        (weight + data[i] + (IF mode /\ dropout THEN 1 ELSE 0)) % 2]

RECURSIVE CountEq(_, _)
CountEq(pred, target) ==
    IF Len(pred) = 0 THEN 0
    ELSE (IF Head(pred) = Head(target) THEN 1 ELSE 0)
         + CountEq(Tail(pred), Tail(target))

\* criteria(output, target[, reduction]): 0/1 loss per sample; the default
\* reduction is the mean over the batch, reduction="sum" the sum.
Criteria(out, target, reduction) ==
    LET wrong == Len(out) - CountEq(out, target)
    IN IF reduction = "sum" THEN Rat(wrong, 1) ELSE Rat(wrong, Len(out))

\* the gradient of the batch loss with respect to the parameter
GradOf(out, target) == (Len(out) - CountEq(out, target)) % 2

\* optimizer.step(): one gradient step on the parameter
OptStep(weight, g) == (weight + g) % 2

\* torch.cuda.amp.autocast() without dtype casts to float16
AutocastDefault == "float16"

\* ------------------------------------------------------------------ state
VARIABLES
    pc,          \* position of the running routine, "idle" between calls
    routine,     \* the routine called last: "none", "train" or "test"
    closure,     \* use_l1 and lambda_l1 captured by train()
    args,        \* dropout and scheduler (given or None) of the current call
    weight,      \* the model's parameter
    grad,        \* the parameter's accumulated gradient
    training,    \* model.training
    gradEnabled, \* torch.is_grad_enabled()
    autocast,    \* dtype of the active autocast context, "off" outside
    batch,       \* the batch fetched from the loader, <<>> if none
    output,      \* output of the last forward pass
    loss,        \* loss of the last criteria call (train)
    backLoss,    \* the loss tensor whose backward() ran last
    batch_loss,  \* batch_loss of test()
    epoch_loss,  \* epoch_loss of train.internal
    test_loss,   \* test_loss of test()
    correct,     \* correct of either routine
    nBatches,    \* batches yielded so far: len(loader) once exhausted
    nSamples,    \* samples yielded so far: len(loader.dataset) once exhausted
    calls,       \* calls made on the arguments during the current call
    hist,        \* what criteria and argmax returned for each batch
    fwd,         \* how the model was invoked last
    ret          \* the value returned

vars == <<pc, routine, closure, args, weight, grad, training, gradEnabled,
          autocast, batch, output, loss, backLoss, batch_loss, epoch_loss,
          test_loss, correct, nBatches, nSamples, calls, hist, fwd, ret>>

NoArgs == [dropout |-> FALSE, scheduler |-> FALSE]

NoFwd == [args |-> <<>>, autocast |-> "off", grad |-> FALSE, mode |-> FALSE]

NoRet == [ok |-> FALSE, loss |-> RZero, acc |-> RZero]

\* train(use_l1, lambda_l1): the arguments are captured and nothing else
MakeClosure(use_l1, lambda_l1) == [use_l1 |-> use_l1, lambda_l1 |-> lambda_l1]

Init ==
    /\ pc = "idle"
    /\ routine = "none"
    /\ \E u \in BOOLEAN : closure = MakeClosure(u, Rat(LambdaNum, LambdaDen))
    /\ args = NoArgs
    /\ weight \in Weights
    /\ grad = 0
    /\ training = TRUE
    /\ gradEnabled = TRUE
    /\ autocast = "off"
    /\ batch = <<>>
    /\ output = <<>>
    /\ loss = RZero
    /\ backLoss = RZero
    /\ batch_loss = RZero
    /\ epoch_loss = RZero
    /\ test_loss = RZero
    /\ correct = 0
    /\ nBatches = 0
    /\ nSamples = 0
    /\ calls = <<>>
    /\ hist = <<>>
    /\ fwd = NoFwd
    /\ ret = NoRet

\* train(use_l1, lambda_l1) returns a new training function
MakeTrain ==
    /\ pc = "idle"
    /\ \E u \in BOOLEAN : closure' = MakeClosure(u, Rat(LambdaNum, LambdaDen))
    /\ closure' # closure
    /\ UNCHANGED <<pc, routine, args, weight, grad, training, gradEnabled,
                   autocast, batch, output, loss, backLoss, batch_loss,
                   epoch_loss, test_loss, correct, nBatches, nSamples, calls,
                   hist, fwd, ret>>

\* ------------------------------------------------ train.internal, by line
\* the accumulators of train.internal at entry
TrainStart == [epoch_loss |-> RZero, correct |-> 0]

\* what model.train() makes of model.training
ModelTrain == TRUE

\* model.train(); epoch_loss = 0; correct = 0
TrainBegin ==
    /\ pc = "idle"
    /\ \E d \in BOOLEAN, s \in BOOLEAN :
          args' = [dropout |-> d, scheduler |-> s]
    /\ routine' = "train"
    /\ training' = ModelTrain
    /\ epoch_loss' = TrainStart.epoch_loss
    /\ correct' = TrainStart.correct
    /\ calls' = <<"model.train">>
    /\ hist' = <<>>
    /\ fwd' = NoFwd
    /\ ret' = NoRet
    /\ nBatches' = 0
    /\ nSamples' = 0
    /\ batch' = <<>>
    /\ output' = <<>>
    /\ loss' = RZero
    /\ backLoss' = RZero
    /\ pc' = "t_for"
    /\ UNCHANGED <<closure, weight, grad, gradEnabled, autocast, batch_loss,
                   test_loss>>

\* for data, target in train_loader: the loader yields one more batch
TrainNext ==
    /\ pc = "t_for"
    /\ nBatches < MaxBatches
    /\ \E b \in Batches :
          /\ batch' = b
          /\ nSamples' = nSamples + Len(b)
    /\ nBatches' = nBatches + 1
    /\ pc' = "t_zero_grad"
    /\ UNCHANGED <<routine, closure, args, weight, grad, training, gradEnabled,
                   autocast, output, loss, backLoss, batch_loss, epoch_loss,
                   test_loss, correct, calls, hist, fwd, ret>>

\* for data, target in train_loader: the loader is exhausted
TrainExhausted ==
    /\ pc = "t_for"
    /\ pc' = "t_return"
    /\ UNCHANGED <<routine, closure, args, weight, grad, training, gradEnabled,
                   autocast, batch, output, loss, backLoss, batch_loss,
                   epoch_loss, test_loss, correct, nBatches, nSamples, calls,
                   hist, fwd, ret>>

\* mutant: zero_grad() only for the first batch
ZeroGradFirstBatchOnly ==
    /\ pc = "t_zero_grad"
    /\ IF nBatches = 1
          THEN /\ grad' = 0
               /\ calls' = Append(calls, "optimizer.zero_grad")
          ELSE UNCHANGED <<grad, calls>>
    /\ pc' = "t_forward"
    /\ UNCHANGED <<routine, closure, args, weight, training, gradEnabled,
                   autocast, batch, output, loss, backLoss, batch_loss,
                   epoch_loss, test_loss, correct, nBatches, nSamples, hist,
                   fwd, ret>>

\* optimizer.zero_grad()
ZeroGrad ==
    /\ pc = "t_zero_grad"
    /\ grad' = 0
    /\ calls' = Append(calls, "optimizer.zero_grad")
    /\ pc' = "t_forward"
    /\ UNCHANGED <<routine, closure, args, weight, training, gradEnabled,
                   autocast, batch, output, loss, backLoss, batch_loss,
                   epoch_loss, test_loss, correct, nBatches, nSamples, hist,
                   fwd, ret>>

\* the arguments train.internal passes to the model
TrainModelArgs(data, dropout) == <<data, dropout>>

\* with autocast(dtype=torch.float16): output = model(data, dropout)
TrainForward ==
    /\ pc = "t_forward"
    /\ autocast' = "float16"
    /\ output' = Forward(weight, Data(batch), args.dropout, training)
    /\ fwd' = [args |-> TrainModelArgs(Data(batch), args.dropout),
               autocast |-> autocast', grad |-> gradEnabled,
               mode |-> training]
    /\ calls' = Append(calls, "model")
    /\ pc' = "t_criteria"
    /\ UNCHANGED <<routine, closure, args, weight, grad, training, gradEnabled,
                   batch, loss, backLoss, batch_loss, epoch_loss, test_loss,
                   correct, nBatches, nSamples, hist, ret>>

\* loss = criteria(output, target), then the autocast block ends
TrainCriteria ==
    /\ pc = "t_criteria"
    /\ loss' = Criteria(output, Target(batch), "mean")
    /\ hist' = Append(hist, [loss |-> loss',
                             ncorrect |-> CountEq(output, Target(batch))])
    /\ autocast' = "off"
    /\ calls' = Append(calls, "criteria")
    /\ pc' = "t_backward"
    /\ UNCHANGED <<routine, closure, args, weight, grad, training, gradEnabled,
                   batch, output, backLoss, batch_loss, epoch_loss, test_loss,
                   correct, nBatches, nSamples, fwd, ret>>

\* the loss train.internal back-propagates
BackwardLoss(l, cl, wt) == l

\* scaler.scale(loss).backward()
Backward ==
    /\ pc = "t_backward"
    /\ gradEnabled
    /\ backLoss' = BackwardLoss(loss, closure, weight)
    /\ grad' = (grad + GradOf(output, Target(batch))) % 2
    /\ calls' = Append(calls, "backward")
    /\ pc' = "t_scaler_step"
    /\ UNCHANGED <<routine, closure, args, weight, training, gradEnabled,
                   autocast, batch, output, loss, batch_loss, epoch_loss,
                   test_loss, correct, nBatches, nSamples, hist, fwd, ret>>

\* scaler.step(optimizer)
ScalerStep ==
    /\ pc = "t_scaler_step"
    /\ weight' = OptStep(weight, grad)
    /\ calls' = Append(calls, "scaler.step")
    /\ pc' = "t_scaler_update"
    /\ UNCHANGED <<routine, closure, args, grad, training, gradEnabled,
                   autocast, batch, output, loss, backLoss, batch_loss,
                   epoch_loss, test_loss, correct, nBatches, nSamples, hist,
                   fwd, ret>>

\* scaler.update()
ScalerUpdate ==
    /\ pc = "t_scaler_update"
    /\ calls' = Append(calls, "scaler.update")
    /\ pc' = "t_scheduler"
    /\ UNCHANGED <<routine, closure, args, weight, grad, training, gradEnabled,
                   autocast, batch, output, loss, backLoss, batch_loss,
                   epoch_loss, test_loss, correct, nBatches, nSamples, hist,
                   fwd, ret>>

\* mutant: the scheduler is never stepped
SchedulerCallsNever(scheduler) == <<>>

\* the calls `if scheduler: scheduler.step()` makes
SchedulerCalls(scheduler) == IF scheduler THEN <<"scheduler.step">> ELSE <<>>

\* if scheduler: scheduler.step()
SchedulerStep ==
    /\ pc = "t_scheduler"
    /\ calls' = calls \o SchedulerCalls(args.scheduler)
    /\ pc' = "t_accumulate"
    /\ UNCHANGED <<routine, closure, args, weight, grad, training, gradEnabled,
                   autocast, batch, output, loss, backLoss, batch_loss,
                   epoch_loss, test_loss, correct, nBatches, nSamples, hist,
                   fwd, ret>>

\* pred = output.argmax(...); correct += pred.eq(target).sum().item();
\* epoch_loss += loss.item()
TrainAccumulate ==
    /\ pc = "t_accumulate"
    /\ correct' = correct + CountEq(output, Target(batch))
    /\ epoch_loss' = RAdd(epoch_loss, loss)
    /\ pc' = "t_for"
    /\ UNCHANGED <<routine, closure, args, weight, grad, training, gradEnabled,
                   autocast, batch, output, loss, backLoss, batch_loss,
                   test_loss, nBatches, nSamples, calls, hist, fwd, ret>>

\* mutant: the loss is divided by the number of samples
TrainResultPerSample(el, c, nb, ns) ==
    [ok |-> TRUE, loss |-> Rat(el.n, el.d * ns), acc |-> Rat(Percent * c, ns)]

\* the pair train.internal returns
TrainResult(el, c, nb, ns) ==
    [ok |-> TRUE, loss |-> Rat(el.n, el.d * nb), acc |-> Rat(Percent * c, ns)]

\* return epoch_loss / len(train_loader),
\*        100.0 * correct / len(train_loader.dataset)
\* an empty loader makes the first division raise ZeroDivisionError
TrainReturn ==
    /\ pc = "t_return"
    /\ IF nBatches = 0
          THEN /\ pc' = "raised"
               /\ ret' = ret
          ELSE /\ pc' = "done"
               /\ ret' = TrainResult(epoch_loss, correct, nBatches, nSamples)
    /\ UNCHANGED <<routine, closure, args, weight, grad, training, gradEnabled,
                   autocast, batch, output, loss, backLoss, batch_loss,
                   epoch_loss, test_loss, correct, nBatches, nSamples, calls,
                   hist, fwd>>

\* ------------------------------------------------------- test(), by line
\* the accumulators of test() at entry
TestStart == [test_loss |-> RZero, correct |-> 0]

\* mutant: model.eval() is not called
ModelEvalMissing == training

\* what model.eval() makes of model.training
ModelEval == FALSE

\* mutant: the loop is not inside torch.no_grad()
NoGradMissing == gradEnabled

\* what `with torch.no_grad():` makes of torch.is_grad_enabled()
NoGrad == FALSE

\* model.eval(); test_loss = 0; correct = 0; with torch.no_grad():
TestBegin ==
    /\ pc = "idle"
    /\ args' = NoArgs
    /\ routine' = "test"
    /\ training' = ModelEval
    /\ test_loss' = TestStart.test_loss
    /\ correct' = TestStart.correct
    /\ gradEnabled' = NoGrad
    /\ calls' = <<"model.eval">>
    /\ hist' = <<>>
    /\ fwd' = NoFwd
    /\ ret' = NoRet
    /\ nBatches' = 0
    /\ nSamples' = 0
    /\ batch' = <<>>
    /\ output' = <<>>
    /\ batch_loss' = RZero
    /\ pc' = "e_for"
    /\ UNCHANGED <<closure, weight, grad, autocast, loss, backLoss,
                   epoch_loss>>

\* for data, target in test_loader: one more batch; batch_loss = 0
TestNext ==
    /\ pc = "e_for"
    /\ nBatches < MaxBatches
    /\ \E b \in Batches :
          /\ batch' = b
          /\ nSamples' = nSamples + Len(b)
    /\ nBatches' = nBatches + 1
    /\ batch_loss' = RZero
    /\ pc' = "e_forward"
    /\ UNCHANGED <<routine, closure, args, weight, grad, training, gradEnabled,
                   autocast, output, loss, backLoss, epoch_loss, test_loss,
                   correct, calls, hist, fwd, ret>>

\* for data, target in test_loader: the loader is exhausted
TestExhausted ==
    /\ pc = "e_for"
    /\ pc' = "e_return"
    /\ UNCHANGED <<routine, closure, args, weight, grad, training, gradEnabled,
                   autocast, batch, output, loss, backLoss, batch_loss,
                   epoch_loss, test_loss, correct, nBatches, nSamples, calls,
                   hist, fwd, ret>>

\* the model's own default for the dropout argument test() leaves out
DropoutDefault == FALSE

\* mutant: test() passes a dropout flag as train.internal does
TestModelArgsWithDropout(data) == <<data, DropoutDefault>>

\* the arguments test() passes to the model
TestModelArgs(data) == <<data>>

\* the dtype of test()'s autocast block
TestAutocast == AutocastDefault

\* with autocast(): output = model(data)
TestForward ==
    /\ pc = "e_forward"
    /\ autocast' = TestAutocast
    /\ output' = Forward(weight, Data(batch), DropoutDefault, training)
    /\ fwd' = [args |-> TestModelArgs(Data(batch)), autocast |-> autocast',
               grad |-> gradEnabled, mode |-> training]
    /\ calls' = Append(calls, "model")
    /\ pc' = "e_criteria"
    /\ UNCHANGED <<routine, closure, args, weight, grad, training, gradEnabled,
                   batch, loss, backLoss, batch_loss, epoch_loss, test_loss,
                   correct, nBatches, nSamples, hist, ret>>

\* batch_loss = criteria(output, target, reduction="sum").item(), then the
\* autocast block ends
TestCriteria ==
    /\ pc = "e_criteria"
    /\ batch_loss' = Criteria(output, Target(batch), "sum")
    /\ hist' = Append(hist, [loss |-> batch_loss',
                             ncorrect |-> CountEq(output, Target(batch))])
    /\ autocast' = "off"
    /\ calls' = Append(calls, "criteria")
    /\ pc' = "e_accumulate"
    /\ UNCHANGED <<routine, closure, args, weight, grad, training, gradEnabled,
                   batch, output, loss, backLoss, epoch_loss, test_loss,
                   correct, nBatches, nSamples, fwd, ret>>

\* test_loss += batch_loss; pred = output.argmax(...);
\* correct += pred.eq(target).sum().item()
TestAccumulate ==
    /\ pc = "e_accumulate"
    /\ test_loss' = RAdd(test_loss, batch_loss)
    /\ correct' = correct + CountEq(output, Target(batch))
    /\ pc' = "e_for"
    /\ UNCHANGED <<routine, closure, args, weight, grad, training, gradEnabled,
                   autocast, batch, output, loss, backLoss, batch_loss,
                   epoch_loss, nBatches, nSamples, calls, hist, fwd, ret>>

\* the pair test() returns
TestResult(tl, c, nb, ns) ==
    [ok |-> TRUE, loss |-> Rat(tl.n, tl.d * ns), acc |-> Rat(Percent * c, ns)]

\* the no_grad block ends;
\* return test_loss / len(test_loader.dataset),
\*        100.0 * correct / len(test_loader.dataset)
\* an empty dataset makes the first division raise ZeroDivisionError
TestReturn ==
    /\ pc = "e_return"
    /\ gradEnabled' = TRUE
    /\ IF nSamples = 0
          THEN /\ pc' = "raised"
               /\ ret' = ret
          ELSE /\ pc' = "done"
               /\ ret' = TestResult(test_loss, correct, nBatches, nSamples)
    /\ UNCHANGED <<routine, closure, args, weight, grad, training, autocast,
                   batch, output, loss, backLoss, batch_loss, epoch_loss,
                   test_loss, correct, nBatches, nSamples, calls, hist, fwd>>

\* the caller takes the result (or the exception); the locals are gone
Finish ==
    /\ pc \in {"done", "raised"}
    /\ pc' = "idle"
    /\ args' = NoArgs
    /\ batch' = <<>>
    /\ output' = <<>>
    /\ loss' = RZero
    /\ backLoss' = RZero
    /\ batch_loss' = RZero
    /\ epoch_loss' = RZero
    /\ test_loss' = RZero
    /\ correct' = 0
    /\ nBatches' = 0
    /\ nSamples' = 0
    /\ calls' = <<>>
    /\ hist' = <<>>
    /\ fwd' = NoFwd
    /\ ret' = NoRet
    /\ UNCHANGED <<routine, closure, weight, grad, training, gradEnabled,
                   autocast>>

Next ==
    \/ MakeTrain
    \/ TrainBegin
    \/ TrainNext
    \/ TrainExhausted
    \/ ZeroGrad
    \/ TrainForward
    \/ TrainCriteria
    \/ Backward
    \/ ScalerStep
    \/ ScalerUpdate
    \/ SchedulerStep
    \/ TrainAccumulate
    \/ TrainReturn
    \/ TestBegin
    \/ TestNext
    \/ TestExhausted
    \/ TestForward
    \/ TestCriteria
    \/ TestAccumulate
    \/ TestReturn
    \/ Finish

Spec == Init /\ [][Next]_vars

\* ------------------------------------------------- operators of the claims
RMul(p, q) == Rat(p.n * q.n, p.d * q.d)

\* the L1 norm of the model's parameter
L1Norm(wt) == wt

IsPrefix(s, t) == Len(s) <= Len(t) /\ s = SubSeq(t, 1, Len(s))

RECURSIVE Repeat(_, _)
Repeat(s, k) == IF k = 0 THEN <<>> ELSE Repeat(s, k - 1) \o s

RECURSIVE Count(_, _)
Count(s, c) ==
    IF Len(s) = 0 THEN 0
    ELSE (IF Head(s) = c THEN 1 ELSE 0) + Count(Tail(s), c)

RECURSIVE Without(_, _)
Without(s, c) ==
    IF Len(s) = 0 THEN <<>>
    ELSE (IF Head(s) = c THEN <<>> ELSE <<Head(s)>>) \o Without(Tail(s), c)

RECURSIVE SumLoss(_)
SumLoss(h) == IF Len(h) = 0 THEN RZero ELSE RAdd(Head(h).loss, SumLoss(Tail(h)))

RECURSIVE SumCorrect(_)
SumCorrect(h) == IF Len(h) = 0 THEN 0 ELSE Head(h).ncorrect + SumCorrect(Tail(h))

\* the calls of one training batch, in the order of the claim
BatchCalls(withScheduler) ==
    <<"optimizer.zero_grad", "model", "criteria", "backward", "scaler.step",
      "scaler.update">>
    \o (IF withScheduler THEN <<"scheduler.step">> ELSE <<>>)

InTrain == routine = "train" /\ pc # "idle"

InTest == routine = "test" /\ pc # "idle"

BetweenBatches == pc \in {"t_for", "t_return", "done", "raised"}

\* C1: in the training function the calls made so far are always a prefix of
\* model.train() followed, batch after batch, by zero_grad, forward, criteria,
\* backward, scaler.step, scaler.update and (with a scheduler) scheduler.step;
\* between batches and at the end they are exactly that sequence for the
\* batches yielded, so each call happened once per batch, every backward has
\* its own zero_grad before it and a batch is finished before the next starts.
C1_TrainCallOrder ==
    InTrain =>
        LET expected ==
                <<"model.train">>
                \o Repeat(BatchCalls(args.scheduler), nBatches)
        IN /\ IsPrefix(calls, expected)
           /\ BetweenBatches => calls = expected
           /\ BetweenBatches =>
                \A c \in {"optimizer.zero_grad", "model", "criteria",
                          "backward", "scaler.step", "scaler.update"} :
                    Count(calls, c) = nBatches
           /\ Count(calls, "backward") <= Count(calls, "optimizer.zero_grad")

C1_Witness ==
    /\ InTrain
    /\ pc = "done"
    /\ args.scheduler
    /\ nBatches = MaxBatches
    /\ Count(calls, "backward") = MaxBatches

\* C2: while test() runs, no step changes the model's parameter or its
\* gradient, the only calls made are model.eval(), the forward pass and
\* criteria (no backward, optimizer, scaler or scheduler call), and every
\* forward pass runs with gradient tracking disabled.
C2_TestFrame ==
    [][routine' = "test" =>
          /\ weight' = weight
          /\ grad' = grad
          /\ \A i \in 1..Len(calls') :
                calls'[i] \in {"model.eval", "model", "criteria"}
          /\ (fwd' # NoFwd => ~fwd'.grad)
          /\ (pc' \in {"e_forward", "e_criteria", "e_accumulate"}
                => ~gradEnabled')]_vars

C2_Witness ==
    /\ InTest
    /\ pc = "done"
    /\ nBatches = MaxBatches
    /\ grad # 0
    /\ ~fwd.grad
    /\ ret.loss # RZero

\* C3 as claimed: test() invokes the model with the arguments the training
\* function passes for the same batch (the data and a dropout flag) and under
\* the same autocast configuration.
C3_SameForwardArgs ==
    (InTest /\ pc = "e_criteria") =>
        /\ \E d \in BOOLEAN : fwd.args = TrainModelArgs(Data(batch), d)
        /\ fwd.autocast = "float16"

\* C3 amended: both routines invoke the model on the batch's data under a
\* float16 autocast context; the training function passes the dropout flag
\* as second argument with gradient tracking on, test() passes the data alone
\* with gradient tracking off.
C3_ForwardArgs ==
    pc \in {"t_criteria", "e_criteria"} =>
        /\ fwd.args[1] = Data(batch)
        /\ fwd.autocast = "float16"
        /\ routine = "train" =>
              fwd.args = <<Data(batch), args.dropout>> /\ fwd.grad
        /\ routine = "test" => fwd.args = <<Data(batch)>> /\ ~fwd.grad

C3_Witness ==
    /\ InTest
    /\ pc = "e_criteria"
    /\ Len(batch) = MaxBatch
    /\ fwd.args = <<Data(batch)>>
    /\ fwd.autocast = "float16"

\* C4 as claimed: the second element of the returned pair is the number of
\* samples whose arg-max prediction equals the target, summed over the
\* batches.
C4_ReturnsCorrectCount ==
    pc = "done" => ret.acc = Rat(SumCorrect(hist), 1)

\* C5 as claimed: with use_l1 the loss that is back-propagated is the
\* criteria loss plus lambda_l1 times the L1 norm of the parameters.
C5_L1Penalty ==
    (InTrain /\ pc = "t_scaler_step" /\ closure.use_l1) =>
        backLoss = RAdd(loss, RMul(closure.lambda_l1, Rat(L1Norm(weight), 1)))

\* C6: scheduler.step() is called only when a scheduler was given, each time
\* right after scaler.step and scaler.update of the same batch, once per
\* batch (N times after N batches); the other calls are those made without a
\* scheduler.
C6_SchedulerSteps ==
    InTrain =>
        /\ ~args.scheduler => Count(calls, "scheduler.step") = 0
        /\ (args.scheduler /\ BetweenBatches) =>
              Count(calls, "scheduler.step") = nBatches
        /\ (args.scheduler /\ pc = "t_accumulate") =>
              calls[Len(calls)] = "scheduler.step"
        /\ Count(calls, "scheduler.step") <= Count(calls, "scaler.update")
        /\ args.scheduler =>
              Count(calls, "scaler.update") <= Count(calls, "scheduler.step") + 1
        /\ \A i \in 1..Len(calls) :
              calls[i] = "scheduler.step" =>
                  /\ i > 2
                  /\ calls[i - 1] = "scaler.update"
                  /\ calls[i - 2] = "scaler.step"
        /\ IsPrefix(Without(calls, "scheduler.step"),
                    <<"model.train">> \o Repeat(BatchCalls(FALSE), nBatches))

C6_Witness ==
    /\ InTrain
    /\ pc = "done"
    /\ args.scheduler
    /\ nBatches = MaxBatches
    /\ Count(calls, "scheduler.step") = MaxBatches

\* C7: between batches the accumulated loss is the sum of the losses criteria
\* returned for the batches of this call and the accumulated count the sum of
\* their correct predictions, each computed in the forward pass of its batch
\* before the optimizer step; the training function returns that sum divided by the number of
\* batches, test() returns it divided by the number of samples.
C7_ReturnedLoss ==
    LET total == SumLoss(hist)
    IN /\ (InTrain /\ BetweenBatches) =>
              /\ epoch_loss = total
              /\ correct = SumCorrect(hist)
              /\ Len(hist) = nBatches
       /\ (InTest /\ pc \in {"e_for", "e_return", "done", "raised"}) =>
              /\ test_loss = total
              /\ correct = SumCorrect(hist)
              /\ Len(hist) = nBatches
       /\ (InTrain /\ pc = "done") =>
              ret.loss = Rat(total.n, total.d * nBatches)
       /\ (InTest /\ pc = "done") =>
              ret.loss = Rat(total.n, total.d * nSamples)
       /\ (InTrain /\ pc \in {"t_backward", "t_scaler_step"}) =>
              hist[Len(hist)].loss
                  = Criteria(Forward(weight, Data(batch), args.dropout, TRUE),
                             Target(batch), "mean")

C7_Witness ==
    /\ InTrain
    /\ pc = "done"
    /\ nBatches = MaxBatches
    /\ nSamples > nBatches
    /\ ret.loss # RZero
    /\ hist[1].loss # hist[MaxBatches].loss
    /\ grad # 0

\* C8: every forward pass of the training function runs in training mode and
\* every forward pass of test() in evaluation mode; the mode is set by one call
\* before the first batch and stays that of the routine called last, also
\* after it returned.
C8_ModelMode ==
    /\ routine = "train" => training
    /\ routine = "test" => ~training
    /\ fwd # NoFwd => fwd.mode = (routine = "train")
    /\ InTrain =>
          /\ calls[1] = "model.train"
          /\ Count(calls, "model.train") = 1
          /\ Count(calls, "model.eval") = 0
    /\ InTest =>
          /\ calls[1] = "model.eval"
          /\ Count(calls, "model.eval") = 1
          /\ Count(calls, "model.train") = 0

C8_Witness ==
    /\ routine = "test"
    /\ pc = "idle"
    /\ ~training
    /\ grad # 0

====
